---- MODULE Spec2Model ----
(***************************************************************************)
(* Model of the end-to-end issuance + verification script                  *)
(* (src/unnamed/part_004, lines 1-248): main() walks                       *)
(* discover -> keygen -> issue -> resolve offer -> token -> [proof] ->     *)
(* credential -> start verify, every server answer being an input.        *)
(*                                                                         *)
(* JavaScript values are modelled as strings: Undefined stands for         *)
(* undefined/null, "" for the empty string, ObjectValue for a non-string   *)
(* object. An optional object is a record with a `present` flag.           *)
(***************************************************************************)
EXTENDS Integers, Sequences, FiniteSets, TLC

\* ------------------------------------------------------------------ bounds
\* Longest issuer-metadata listing (credential_configurations_supported).
MaxConfigs == 2
\* Largest attempt count fetchCredentialOfferWithRetry is called with.
MaxAttempts == 6
\* Longest string value of an offer put through the URL codec.
MaxStrLen == 3
\* Most POST /auth/start requests the web authentication service receives.
MaxStarts == 2
\* Most POST /auth/present requests it receives.
MaxPresents == 2
\* Most POST /api/issue-mdoc requests the passport reader server receives.
MaxIssueRequests == 2

\* ------------------------------------------------------- program constants
\* `${ISSUER_BASE}/${STANDARD_VERSION}`, the audience of the proof
IssuerAudience == "http://localhost:7002/draft13"
\* fetchCredentialOfferWithRetry(offerUri, attempts=5, delayMs=500)
DefaultAttempts == 5
DefaultDelayMs == 500

\* ------------------------------------------------------------- JS values
Undefined == "<undefined>"
ObjectValue == "<object>"

\* JavaScript truthiness of a modelled value: undefined, null and "" are falsy.
Truthy(v) == v \notin {Undefined, ""}

\* a || b
JsOr(a, b) == IF Truthy(a) THEN a ELSE b

\* ---------------------------------------------------------------- steps
Steps ==
  << "DISCOVER", "KEYGEN", "ISSUE", "RESOLVE_OFFER", "EXCHANGE_CODE",
     "PROOF", "FETCH_CREDENTIAL", "START_VERIFY", "DONE" >>

StepIndex(s) == CHOOSE i \in 1..Len(Steps) : Steps[i] = s

NoStep == "none"
NotExited == -1

\* Endpoint URLs, as the script builds them.
MetadataEndpoint == "GET /draft13/.well-known/openid-credential-issuer"
IssueEndpoint == "POST /openid4vc/jwt/issue"
OfferUriEndpoint == "GET <credential_offer_uri>"
TokenEndpoint == "POST /draft13/token"
CredentialEndpoint == "POST /draft13/credential"
VerifyEndpoint == "POST verifier /openid4vc/verify"

PreAuthGrantType == "urn:ietf:params:oauth:grant-type:pre-authorized_code"

\* ------------------------------------------------------ server answers
\* Descriptors the issuer metadata may list, as [id, format, types].
ConfigEntries ==
  { [id |-> "university-degree-jwt", format |-> "jwt_vc_json",
     types |-> << "VerifiableCredential", "UniversityDegree" >>],
    [id |-> "legacy-id", format |-> "jwt_vc", types |-> << >>],
    [id |-> "org.iso.18013.5.1.mDL", format |-> "mso_mdoc", types |-> << >>] }

RECURSIVE SeqsUpTo(_, _)
\* Sequences over S of length <= n.
SeqsUpTo(S, n) ==
  IF n = 0 THEN { << >> }
  ELSE LET shorter == SeqsUpTo(S, n - 1)
           longest == { r \in shorter : Len(r) = n - 1 }
       IN shorter \cup { Append(q, e) : q \in longest, e \in S }

\* The keys of an object are pairwise distinct.
DistinctIds(q) == \A i, j \in 1..Len(q) : q[i].id = q[j].id => i = j

\* A descriptor listed under the empty string as its key.
EmptyIdEntry == [id |-> "", format |-> "jwt_vc_json", types |-> << >>]

\* credential_configurations_supported, in Object.entries order.
IssuerMetas ==
  { q \in SeqsUpTo(ConfigEntries, MaxConfigs) : DistinctIds(q) }
    \cup { << [id |-> "org.iso.18013.5.1.mDL", format |-> "mso_mdoc",
               types |-> << >>], EmptyIdEntry >> }

NoGrant == [present |-> FALSE, pre_authorized_code |-> Undefined,
            pre_dash_authorized_code |-> Undefined]
Grant(underscore, dash) ==
  [present |-> TRUE, pre_authorized_code |-> underscore,
   pre_dash_authorized_code |-> dash]

NoAuthGrant == [present |-> FALSE, issuer_state |-> Undefined]
AuthGrant(state) == [present |-> TRUE, issuer_state |-> state]

NoGrants == [present |-> FALSE, authorization_code |-> NoAuthGrant,
             current |-> NoGrant, legacy |-> NoGrant]
Grants(auth, cur, leg) ==
  [present |-> TRUE, authorization_code |-> auth, current |-> cur,
   legacy |-> leg]

\* offer === null / undefined
NullOffer == [present |-> FALSE, grants |-> NoGrants]
Offer(g) == [present |-> TRUE, grants |-> g]

\* Offers the issuer may hand out. `current` is the grant under the key
\* 'urn:ietf:params:oauth:grant-type:pre-authorized_code', `legacy` the one
\* under 'pre-authorized_code'.
Offers ==
  { NullOffer,
    Offer(NoGrants),
    Offer(Grants(NoAuthGrant, NoGrant, NoGrant)),
    Offer(Grants(NoAuthGrant, Grant(Undefined, "abc123"), NoGrant)),
    Offer(Grants(NoAuthGrant, Grant("abc123", Undefined), NoGrant)),
    Offer(Grants(NoAuthGrant, NoGrant, Grant(Undefined, "legacy456"))),
    Offer(Grants(NoAuthGrant, Grant(Undefined, ""), NoGrant)),
    Offer(Grants(NoAuthGrant, Grant(Undefined, Undefined),
                 Grant(Undefined, "legacy456"))),
    Offer(Grants(AuthGrant("state789"), NoGrant, NoGrant)),
    Offer(Grants(AuthGrant(Undefined), Grant(Undefined, "abc123"), NoGrant)),
    Offer(Grants(AuthGrant("state789"), Grant(Undefined, "abc123"), NoGrant)) }

\* The credential_offer query parameter: absent, empty, text that is not
\* JSON, or the JSON text of an offer.
NoInline == [kind |-> "absent", offer |-> NullOffer]
Inline(kind, o) == [kind |-> kind, offer |-> o]

OfferUri == "http://localhost:7002/draft13/credential-offer?id=1"

\* What POST /openid4vc/jwt/issue may answer: a non-string body, or a URL
\* whose query carries credential_offer and/or credential_offer_uri.
IssuanceUrl(isString, inline, uri) ==
  [isString |-> isString, credential_offer |-> inline,
   credential_offer_uri |-> uri]

IssuanceUrls ==
  { IssuanceUrl(FALSE, NoInline, Undefined) }
  \cup { IssuanceUrl(TRUE, Inline("json", o), Undefined) : o \in Offers }
  \cup { IssuanceUrl(TRUE, Inline("json", o), OfferUri) :
           o \in { Offer(Grants(NoAuthGrant, Grant(Undefined, "abc123"),
                                NoGrant)) } }
  \cup { IssuanceUrl(TRUE, Inline("badjson", NullOffer), Undefined),
         IssuanceUrl(TRUE, Inline("empty", NullOffer), OfferUri),
         IssuanceUrl(TRUE, NoInline, OfferUri),
         IssuanceUrl(TRUE, NoInline, ""),
         IssuanceUrl(TRUE, NoInline, Undefined) }

\* AccessTokenResponse {access_token, c_nonce?}
TokenResponses ==
  [access_token : { "tok1", Undefined },
   c_nonce : { Undefined, "", "n1", "n2" }]

NoTokenResp == [access_token |-> Undefined, c_nonce |-> Undefined]

\* CredentialResponse: the fields credential, jwt, vc.
CredentialJwt == "eyJhbGciOiJFZERTQSJ9.e30.c2ln"
\* What a response may carry in jwt and in vc.
JwtMemberValue == "eyJhbGciOiJFZERTQSJ9.e30.and0"
VcMemberValue == "eyJhbGciOiJFZERTQSJ9.e30.dmM"
CredentialResponses ==
  { [credential |-> c, jwt |-> j, vc |-> v] :
      c \in { Undefined, CredentialJwt, ObjectValue },
      j \in { Undefined, "", JwtMemberValue },
      v \in { Undefined, VcMemberValue } }

NoCredentialResp ==
  [credential |-> Undefined, jwt |-> Undefined, vc |-> Undefined]

\* ------------------------------------------------------------ the state
VARIABLES
  pc,                \* the step main() is at ("ERROR" once the catch ran)
  started,           \* history: the steps entered, in order
  completed,         \* history: the steps that returned without throwing
  requests,          \* history: the endpoint of every request sent, in order
  failedStep,        \* the step whose failure reached the catch, or NoStep
  exitStatus,        \* the process's exit status, NotExited while running
  errorKind,         \* what the catch received: "http" (e.response is set),
                     \* "network", "crypto" or "client" (thrown by the script)
  errorAttempt,      \* for an error of the offer poll, the GET it came from
  issuerMeta,        \* entries of credential_configurations_supported
  pickedId, picked, credentialType,
  issuerKey, holderKey,
  issuanceRequest, issuanceUrl,
  offer, code,
  attempts, i,       \* fetchCredentialOfferWithRetry: budget, loop counter
  pollLog,           \* history: its GETs and delays, in order
  waitedMs,          \* history: the time it spent in setTimeout
  served,            \* history: the body of the GET that succeeded
  tokenRequest, tokenResp, accessToken,
  proof, proofBuilt,
  credentialRequest, credentialResp, credentialJwt, warned,
  verifyRequest,
  rtValue, rtUrl, rtResult, \* the offer round trip: the string value of the
                            \* offer, the offer URL built from it, and what
                            \* parsing that URL gave
  sessions,          \* WebAuthService: this.sessions, session id -> session
  uuids,             \* the number of uuidv4() calls made so far
  starts,            \* the POST /auth/start requests, request -> its state
  presents,          \* the POST /auth/present requests, request -> its state
  authReply,         \* the answer to the last GET /auth/status or callback
  issued,            \* history: auth tokens generated, one entry for each
  readerPc,          \* passport reader: where POST /api/issue-mdoc is at
  body,              \* its request body
  readerReply,       \* its response
  pkiSetup,          \* its local pkiSetup
  fileOps,           \* history: reads and writes of mdoc-pki-setup.json
  pkiPc,             \* setup-mdoc-pki.js: where main() is at
  pkiFile,           \* the content of mdoc-pki-setup.json
  iacaData, dsData   \* setupFullPKI: what the two onboardings returned

control ==
  << pc, started, completed, requests, failedStep, exitStatus, errorKind,
     errorAttempt >>
discovered == << issuerMeta, pickedId, picked, credentialType >>
keys == << issuerKey, holderKey >>
issuance == << issuanceRequest, issuanceUrl >>
resolved == << offer, attempts, i, pollLog, waitedMs, served >>
token == << code, tokenRequest, tokenResp, accessToken >>
credential ==
  << proof, proofBuilt, credentialRequest, credentialResp, credentialJwt,
     warned >>

codec == << rtValue, rtUrl, rtResult >>
webAuth == << sessions, uuids, starts, presents, authReply, issued >>
readerServer == << readerPc, body, readerReply, pkiSetup, fileOps >>
pkiScript == << pkiPc, pkiFile, iacaData, dsData >>
services == << webAuth, readerServer, pkiScript >>

vars ==
  << control, discovered, keys, issuance, resolved, token, credential,
     verifyRequest, codec, services >>

NoConf == [id |-> Undefined, format |-> Undefined, types |-> << >>]
NoIssuanceRequest ==
  [sent |-> FALSE, credentialConfigurationId |-> Undefined,
   credentialType |-> Undefined, issuerKey |-> Undefined,
   authenticationMethod |-> Undefined]
NoTokenRequest ==
  [sent |-> FALSE, grant_type |-> Undefined,
   pre_authorized_code |-> Undefined]
NoJwt ==
  [header |-> [alg |-> Undefined, typ |-> Undefined, jwk |-> Undefined],
   payload |-> [aud |-> Undefined, iat |-> Undefined, nonce |-> Undefined],
   signedBy |-> Undefined]
NoProof == [present |-> FALSE, proof_type |-> Undefined, jwt |-> NoJwt]
NoCredentialRequest ==
  [sent |-> FALSE, bearer |-> Undefined,
   credential_configuration_id |-> Undefined, format |-> Undefined,
   proof |-> NoProof]
NoVerifyRequest ==
  [sent |-> FALSE, format |-> Undefined, type |-> Undefined]

NoError == "none"
NoRoundTrip == [status |-> "none", value |-> << >>]

\* The locals of main() and the histories before main() has done anything.
InitLocals ==
  /\ started = << >>
  /\ completed = << >>
  /\ requests = << >>
  /\ failedStep = NoStep
  /\ exitStatus = NotExited
  /\ errorKind = NoError
  /\ errorAttempt = 0
  /\ issuerMeta = << >>
  /\ pickedId = Undefined
  /\ picked = NoConf
  /\ credentialType = Undefined
  /\ issuerKey = Undefined
  /\ holderKey = Undefined
  /\ issuanceRequest = NoIssuanceRequest
  /\ offer = NullOffer
  /\ code = Undefined
  /\ i = 0
  /\ pollLog = << >>
  /\ waitedMs = 0
  /\ served = NullOffer
  /\ tokenRequest = NoTokenRequest
  /\ tokenResp = NoTokenResp
  /\ accessToken = Undefined
  /\ proof = NoJwt
  /\ proofBuilt = FALSE
  /\ credentialRequest = NoCredentialRequest
  /\ credentialResp = NoCredentialResp
  /\ credentialJwt = Undefined
  /\ warned = FALSE
  /\ verifyRequest = NoVerifyRequest

\* No offer round trip is under way.
InitCodec ==
  /\ rtValue = << >>
  /\ rtUrl = << >>
  /\ rtResult = NoRoundTrip

\* JavaScript's null.
Null == "<null>"

\* No answer has been given.
NoReply == [status |-> 0, kind |-> "none", details |-> Undefined]

\* mdoc-pki-setup.json, or what was read from it: there is no such file, it
\* holds no JSON, or it holds a PKI setup; NotRead before any read.
NoFile == [state |-> "absent", iacaKey |-> Undefined, issuerKey |-> Undefined,
           x5Chain |-> << >>]
CorruptFile == [NoFile EXCEPT !.state = "corrupt"]
NotRead == [NoFile EXCEPT !.state = "not read"]

\* Nothing has come back from an onboarding, no Document Signer request is
\* out.
NoIacaData == [iacaKey |-> Undefined, certificateData |-> Undefined]
NoDsData ==
  [sent |-> FALSE, iacaKey |-> Undefined, certificateData |-> Undefined,
   documentSignerKey |-> Undefined, certificatePEM |-> Undefined]

\* Auth tokens and user infos; the two below stand for null.
NoToken == [webId |-> Null, issuedAt |-> 0]
NoUserInfo == [webId |-> Null, passportNumber |-> Null]

\* No answer of the web authentication service.
NoAuthAnswer ==
  [status |-> 0, kind |-> "none", sid |-> 0, token |-> NoToken,
   userInfo |-> NoUserInfo, location |-> Undefined]

\* new WebAuthService(): no session yet, no request received.
InitAuth ==
  /\ sessions = << >>
  /\ uuids = 0
  /\ starts = << >>
  /\ presents = << >>
  /\ authReply = NoAuthAnswer
  /\ issued = << >>

\* No POST /api/issue-mdoc has been received.
NoBody == [passportData |-> Undefined, webId |-> Undefined]
InitReader ==
  /\ readerPc = "READER_OFF"
  /\ body = NoBody
  /\ readerReply = NoReply
  /\ pkiSetup = NotRead
  /\ fileOps = << >>

\* setup-mdoc-pki.js has not been loaded and has written no file.
InitPki ==
  /\ pkiPc = "PKI_NOT_LOADED"
  /\ pkiFile = NoFile
  /\ iacaData = NoIacaData
  /\ dsData = NoDsData

InitServices == InitAuth /\ InitReader /\ InitPki

\* main() has been called and is about to await discoverIssuerConfigs().
Init ==
  /\ pc = "DISCOVER"
  /\ issuanceUrl = IssuanceUrl(FALSE, NoInline, Undefined)
  /\ attempts = DefaultAttempts
  /\ InitLocals
  /\ InitCodec
  /\ InitServices

\* --------------------------------------------------- control flow of main
\* A step is entered.
Enter(step) == started' = Append(started, step)

\* The request of a step goes out.
Send(endpoint) == requests' = Append(requests, endpoint)

\* Faulty variant: the error is logged and swallowed, main() goes on with
\* the next step.
Catch_Swallow(step) ==
  /\ pc' = Steps[StepIndex(step) + 1]
  /\ failedStep' = step
  /\ exitStatus' = exitStatus
  /\ completed' = completed

\* Faulty variant: the catch logs but never calls process.exit(1).
Catch_NoExit(step) ==
  /\ pc' = "ERROR"
  /\ failedStep' = step
  /\ exitStatus' = 0
  /\ completed' = completed

\* Faulty variant: a failed step is tried again.
Catch_Retry(step) ==
  /\ pc' = step
  /\ UNCHANGED << failedStep, exitStatus, completed >>

\* A throw inside the try block: the catch logs and calls process.exit(1).
Catch(step) ==
  /\ pc' = "ERROR"
  /\ failedStep' = step
  /\ exitStatus' = 1
  /\ completed' = completed

\* An error is thrown (or a promise rejects) in a step and reaches the catch.
Throw(step, kind, attempt) ==
  /\ Catch(step)
  /\ errorKind' = kind
  /\ errorAttempt' = attempt

\* How a call to a server fails: with a non-success status, or without any
\* response.
ServerErrors == { "http", "network" }

\* A step returned: main() goes on to the statement after it.
Proceed(step, next) ==
  /\ pc' = next
  /\ completed' = Append(completed, step)
  /\ UNCHANGED << failedStep, exitStatus, errorKind, errorAttempt >>

\* ------------------------------------------------------- pure functions
\* conf.format === 'jwt_vc_json' || conf.format === 'jwt_vc'
IsJwtFormat(conf) == conf.format \in { "jwt_vc_json", "jwt_vc" }

\* Faulty variant: the loop does not break and keeps the last match.
FirstJwtIndex_Last(entries) ==
  IF \E k \in 1..Len(entries) : IsJwtFormat(entries[k])
  THEN CHOOSE k \in 1..Len(entries) :
         /\ IsJwtFormat(entries[k])
         /\ \A j \in (k + 1)..Len(entries) : ~IsJwtFormat(entries[j])
  ELSE 0

\* Index of the entry the for loop breaks at, 0 when it runs to the end.
FirstJwtIndex(entries) ==
  IF \E k \in 1..Len(entries) : IsJwtFormat(entries[k])
  THEN CHOOSE k \in 1..Len(entries) :
         /\ IsJwtFormat(entries[k])
         /\ \A j \in 1..(k - 1) : ~IsJwtFormat(entries[j])
  ELSE 0

\* The [id, conf] pair main() ends up with; entries is not empty.
PickEntry(entries) ==
  LET m == FirstJwtIndex(entries)
      loopId == IF m = 0 THEN Undefined ELSE entries[m].id
  IN IF ~Truthy(loopId) THEN entries[1] ELSE entries[m]

\* (picked.types && picked.types[0]) || 'VerifiableId'
CredentialTypeOf(conf) ==
  IF Len(conf.types) > 0 /\ Truthy(conf.types[1])
  THEN conf.types[1]
  ELSE "VerifiableId"

\* offer?.grants?.authorization_code?.issuer_state
AuthorizationCode(o) ==
  IF o.present /\ o.grants.present /\ o.grants.authorization_code.present
  THEN o.grants.authorization_code.issuer_state
  ELSE Undefined

\* Faulty variant: only the key 'pre-authorized_code' is looked up.
PreAuthorizedGrant_LegacyOnly(o) ==
  IF ~(o.present /\ o.grants.present) THEN NoGrant ELSE o.grants.legacy

\* offer?.grants && (grants[<current key>] || grants['pre-authorized_code'])
PreAuthorizedGrant(o) ==
  IF ~(o.present /\ o.grants.present) THEN NoGrant
  ELSE IF o.grants.current.present THEN o.grants.current
  ELSE o.grants.legacy

\* grant && (grant.pre_authorized_code || grant['pre-authorized_code'])
GrantCode(g) ==
  IF ~g.present THEN Undefined
  ELSE JsOr(g.pre_authorized_code, g.pre_dash_authorized_code)

\* The value of `code` when main() tests it.
ExtractCode(o) ==
  IF Truthy(AuthorizationCode(o))
  THEN AuthorizationCode(o)
  ELSE GrantCode(PreAuthorizedGrant(o))

\* Faulty variant: the guard on the code is dropped.
CodeMissing_Never(c) == FALSE

\* if (!code) throw ...
CodeMissing(c) == ~Truthy(c)

\* The form body exchangePreAuthorizedCode posts.
TokenRequestBody(c) ==
  [sent |-> TRUE, grant_type |-> PreAuthGrantType,
   pre_authorized_code |-> c]

\* Faulty variant: a proof is built for every token response.
ProofRequired_Always(tokenResponse) == TRUE

\* if (tokenResponse.c_nonce)
ProofRequired(tokenResponse) == Truthy(tokenResponse.c_nonce)

\* Faulty variant: the client puts a nonce of its own into the proof.
CreateProofOfPossession_FreshNonce(key, audience, nonce) ==
  [header |-> [alg |-> "EdDSA", typ |-> "openid4vci-proof+jwt", jwk |-> key],
   payload |-> [aud |-> audience, iat |-> "now", nonce |-> "client-nonce"],
   signedBy |-> key]

\* The JWT createProofOfPossession signs.
CreateProofOfPossession(key, audience, nonce) ==
  [header |-> [alg |-> "EdDSA", typ |-> "openid4vci-proof+jwt", jwk |-> key],
   payload |-> [aud |-> audience, iat |-> "now", nonce |-> nonce],
   signedBy |-> key]

\* Faulty variant: the configuration id is written into the payload instead
\* of being passed in.
CredentialPayload_FirstConfig(configId, tokenResponse, jwt) ==
  [credential_configuration_id |-> "university-degree-jwt",
   format |-> "jwt_vc_json",
   proof |-> IF ProofRequired(tokenResponse)
             THEN [present |-> TRUE, proof_type |-> "jwt", jwt |-> jwt]
             ELSE NoProof]

\* Faulty variant: the proof field is attached unconditionally.
CredentialPayload_AlwaysProof(configId, tokenResponse, jwt) ==
  [credential_configuration_id |-> configId,
   format |-> "jwt_vc_json",
   proof |-> [present |-> TRUE, proof_type |-> "jwt", jwt |-> jwt]]

\* The body requestCredential posts; jwt is the proof built for it, if any.
CredentialPayload(configId, tokenResponse, jwt) ==
  [credential_configuration_id |-> configId,
   format |-> "jwt_vc_json",
   proof |-> IF ProofRequired(tokenResponse)
             THEN [present |-> TRUE, proof_type |-> "jwt", jwt |-> jwt]
             ELSE NoProof]

\* Faulty variant: the members are tried in the order vc, jwt, credential.
ExtractCredential_VcFirst(resp) ==
  JsOr(JsOr(resp.vc, resp.jwt), resp.credential)

\* credentialResp.credential || credentialResp.jwt || credentialResp.vc
ExtractCredential(resp) == JsOr(JsOr(resp.credential, resp.jwt), resp.vc)

\* Faulty variant: a response without a credential is an error.
OnMissingCredential_Throw ==
  /\ warned' = TRUE
  /\ Throw("FETCH_CREDENTIAL", "client", 0)

\* if (!credentialJwt) console.warn(...): the run goes on.
OnMissingCredential ==
  /\ warned' = TRUE
  /\ Proceed("FETCH_CREDENTIAL", "START_VERIFY")

\* Faulty variant: the last attempt is tested one too late.
IsLastAttempt_OffByOne(k, n) == k = n

\* Faulty variant: the URI is preferred when the reference carries both.
UseInline_UnlessUri(url) ==
  /\ url.credential_offer.kind \in { "json", "badjson" }
  /\ ~Truthy(url.credential_offer_uri)

\* if (params.get('credential_offer')): the parameter is there and not empty.
UseInline(url) == url.credential_offer.kind \in { "json", "badjson" }

\* Faulty variant: the URI is fetched without being tested.
HasOfferUri_Always(url) == TRUE

\* if (!offerUri) throw / if (offerUri)
HasOfferUri(url) == Truthy(url.credential_offer_uri)

\* Faulty variant: the poll keeps the first error and throws that one.
RethrownAttempt_First(k) == 1

\* throw e: the error caught in pass k of the loop is that of GET k + 1.
RethrownAttempt(k) == k + 1

\* i === attempts-1
IsLastAttempt(k, n) == k = n - 1

\* ---------------------------------------------------------------- steps
\* discoverIssuerConfigs(), then the selection of the configuration.
Discover ==
  /\ pc = "DISCOVER"
  /\ Enter("DISCOVER")
  /\ Send(MetadataEndpoint)
  /\ \/ /\ \E kind \in ServerErrors : Throw("DISCOVER", kind, 0)
        /\ UNCHANGED discovered
     \/ \E meta \in IssuerMetas :
          /\ issuerMeta' = meta
          /\ IF Len(meta) = 0
             THEN /\ Throw("DISCOVER", "client", 0)
                  /\ UNCHANGED << pickedId, picked, credentialType >>
             ELSE /\ pickedId' = PickEntry(meta).id
                  /\ picked' = PickEntry(meta)
                  /\ credentialType' = CredentialTypeOf(PickEntry(meta))
                  /\ Proceed("DISCOVER", "KEYGEN")
  /\ UNCHANGED << keys, issuance, resolved, token, credential, verifyRequest >>
  /\ UNCHANGED << codec, services >>

\* generateEd25519Jwk() for the issuer, generateKeyPair() for the holder.
KeyGen ==
  /\ pc = "KEYGEN"
  /\ Enter("KEYGEN")
  /\ \/ /\ Throw("KEYGEN", "crypto", 0)
        /\ UNCHANGED keys
     \/ /\ issuerKey' = "issuer-ed25519-jwk"
        /\ holderKey' = "holder-ed25519-keypair"
        /\ Proceed("KEYGEN", "ISSUE")
  /\ UNCHANGED << requests, discovered, issuance, resolved, token, credential,
                  verifyRequest >>
  /\ UNCHANGED << codec, services >>

\* startIssuance(issuerKey, pickedId, credentialType)
Issue ==
  /\ pc = "ISSUE"
  /\ Enter("ISSUE")
  /\ Send(IssueEndpoint)
  /\ issuanceRequest' =
       [sent |-> TRUE, credentialConfigurationId |-> pickedId,
        credentialType |-> credentialType, issuerKey |-> issuerKey,
        authenticationMethod |-> "PRE_AUTHORIZED"]
  /\ \/ /\ \E kind \in ServerErrors : Throw("ISSUE", kind, 0)
        /\ UNCHANGED issuanceUrl
     \/ \E url \in IssuanceUrls :
          /\ issuanceUrl' = url
          /\ Proceed("ISSUE", "RESOLVE_OFFER")
  /\ UNCHANGED << discovered, keys, resolved, token, credential,
                  verifyRequest >>
  /\ UNCHANGED << codec, services >>

\* resolveOfferIfUri(issuanceUrl) up to its first await; parseCredentialOfferUrl
\* for an inline offer. The kind "badjson" is text that decodeURIComponent or
\* JSON.parse rejects.
ResolveOffer ==
  /\ pc = "RESOLVE_OFFER"
  /\ Enter("RESOLVE_OFFER")
  /\ UNCHANGED requests
  /\ IF ~issuanceUrl.isString
     THEN /\ Throw("RESOLVE_OFFER", "client", 0)
          /\ UNCHANGED resolved
     ELSE IF UseInline(issuanceUrl)
     THEN IF issuanceUrl.credential_offer.kind = "json"
          THEN /\ offer' = issuanceUrl.credential_offer.offer
               /\ Proceed("RESOLVE_OFFER", "EXCHANGE_CODE")
               /\ UNCHANGED << attempts, i, pollLog, waitedMs, served >>
          ELSE /\ Throw("RESOLVE_OFFER", "client", 0)
               /\ UNCHANGED resolved
     ELSE IF ~HasOfferUri(issuanceUrl)
     THEN /\ Throw("RESOLVE_OFFER", "client", 0)
          /\ UNCHANGED resolved
     ELSE /\ pc' = "POLL_GET"
          /\ i' = 0
          /\ attempts' = DefaultAttempts
          /\ UNCHANGED << completed, failedStep, exitStatus, errorKind,
                          errorAttempt, offer, pollLog, waitedMs, served >>
  /\ UNCHANGED << discovered, keys, issuance, token, credential,
                  verifyRequest >>
  /\ UNCHANGED << codec, services >>

\* fetchCredentialOfferWithRetry: one pass of the loop body, the GET and
\* its catch.
PollGet ==
  /\ pc = "POLL_GET"
  /\ Send(OfferUriEndpoint)
  /\ \/ \E data \in Offers :
          /\ offer' = data
          /\ served' = data
          /\ pollLog' = Append(pollLog, "get_ok")
          /\ Proceed("RESOLVE_OFFER", "EXCHANGE_CODE")
     \/ /\ pollLog' = Append(pollLog, "get_fail")
        /\ UNCHANGED << offer, served >>
        /\ IF IsLastAttempt(i, attempts)
           THEN \E kind \in ServerErrors :
                  Throw("RESOLVE_OFFER", kind, RethrownAttempt(i))
           ELSE /\ pc' = "POLL_DELAY"
                /\ UNCHANGED << completed, failedStep, exitStatus, errorKind,
                                errorAttempt >>
  /\ UNCHANGED << started, attempts, i, waitedMs >>
  /\ UNCHANGED << discovered, keys, issuance, token, credential,
                  verifyRequest >>
  /\ UNCHANGED << codec, services >>

\* fetchCredentialOfferWithRetry: the delay elapsed, i++, the loop test. A
\* loop that runs out returns undefined.
PollDelay ==
  /\ pc = "POLL_DELAY"
  /\ pollLog' = Append(pollLog, "delay")
  /\ waitedMs' = waitedMs + DefaultDelayMs
  /\ i' = i + 1
  /\ IF i + 1 < attempts
     THEN /\ pc' = "POLL_GET"
          /\ UNCHANGED << completed, failedStep, exitStatus, errorKind,
                          errorAttempt, offer >>
     ELSE /\ offer' = NullOffer
          /\ Proceed("RESOLVE_OFFER", "EXCHANGE_CODE")
  /\ UNCHANGED << started, requests, attempts, served >>
  /\ UNCHANGED << discovered, keys, issuance, token, credential,
                  verifyRequest >>
  /\ UNCHANGED << codec, services >>

\* The code is taken from the offer; exchangePreAuthorizedCode(code); then
\* requestCredential() up to the test of c_nonce.
ExchangeCode ==
  /\ pc = "EXCHANGE_CODE"
  /\ Enter("EXCHANGE_CODE")
  /\ code' = ExtractCode(offer)
  /\ IF CodeMissing(ExtractCode(offer))
     THEN /\ Throw("EXCHANGE_CODE", "client", 0)
          /\ UNCHANGED << requests, tokenRequest, tokenResp, accessToken >>
     ELSE /\ Send(TokenEndpoint)
          /\ tokenRequest' = TokenRequestBody(ExtractCode(offer))
          /\ \/ /\ \E kind \in ServerErrors :
                     Throw("EXCHANGE_CODE", kind, 0)
                /\ UNCHANGED << tokenResp, accessToken >>
             \/ \E resp \in TokenResponses :
                  /\ tokenResp' = resp
                  /\ accessToken' = resp.access_token
                  /\ Proceed("EXCHANGE_CODE",
                             IF ProofRequired(resp) THEN "PROOF"
                             ELSE "FETCH_CREDENTIAL")
  /\ UNCHANGED << discovered, keys, issuance, resolved, credential,
                  verifyRequest >>
  /\ UNCHANGED << codec, services >>

\* createProofOfPossession(holderKey, audience, tokenResponse.c_nonce)
BuildProof ==
  /\ pc = "PROOF"
  /\ Enter("PROOF")
  /\ UNCHANGED requests
  /\ \/ /\ Throw("PROOF", "crypto", 0)
        /\ UNCHANGED << proof, proofBuilt >>
     \/ /\ proof' =
             CreateProofOfPossession(holderKey, IssuerAudience,
                                     tokenResp.c_nonce)
        /\ proofBuilt' = TRUE
        /\ Proceed("PROOF", "FETCH_CREDENTIAL")
  /\ UNCHANGED << credentialRequest, credentialResp, credentialJwt, warned >>
  /\ UNCHANGED << discovered, keys, issuance, resolved, token, verifyRequest >>
  /\ UNCHANGED << codec, services >>

\* requestCredential(): the POST; then main() extracts the credential.
FetchCredential ==
  /\ pc = "FETCH_CREDENTIAL"
  /\ Enter("FETCH_CREDENTIAL")
  /\ Send(CredentialEndpoint)
  /\ LET payload == CredentialPayload(pickedId, tokenResp, proof)
     IN credentialRequest' =
          [sent |-> TRUE, bearer |-> accessToken,
           credential_configuration_id |-> payload.credential_configuration_id,
           format |-> payload.format, proof |-> payload.proof]
  /\ \/ /\ \E kind \in ServerErrors :
             Throw("FETCH_CREDENTIAL", kind, 0)
        /\ UNCHANGED << credentialResp, credentialJwt, warned >>
     \/ \E resp \in CredentialResponses :
          /\ credentialResp' = resp
          /\ credentialJwt' = ExtractCredential(resp)
          /\ IF ~Truthy(ExtractCredential(resp))
             THEN OnMissingCredential
             ELSE /\ warned' = FALSE
                  /\ IF ExtractCredential(resp) = ObjectValue
                     THEN Throw("FETCH_CREDENTIAL", "client", 0)
                     ELSE Proceed("FETCH_CREDENTIAL", "START_VERIFY")
  /\ UNCHANGED << proof, proofBuilt >>
  /\ UNCHANGED << discovered, keys, issuance, resolved, token, verifyRequest >>
  /\ UNCHANGED << codec, services >>

\* Faulty variant: the presentation is submitted to the session as well.
VerifyRequests_WithSubmission ==
  << VerifyEndpoint, "POST verifier /openid4vc/verify/{state}" >>

\* The requests main() makes from startVerification on: the one POST.
VerifyRequests == << VerifyEndpoint >>

\* startVerification(credentialType), then the success banner.
StartVerify ==
  /\ pc = "START_VERIFY"
  /\ requests' = requests \o VerifyRequests
  /\ verifyRequest' =
       [sent |-> TRUE, format |-> "jwt_vc_json", type |-> credentialType]
  /\ \/ /\ Enter("START_VERIFY")
        /\ \E kind \in ServerErrors : Throw("START_VERIFY", kind, 0)
     \/ /\ started' = started \o << "START_VERIFY", "DONE" >>
        /\ Proceed("START_VERIFY", "DONE")
  /\ UNCHANGED << discovered, keys, issuance, resolved, token, credential >>
  /\ UNCHANGED << codec, services >>

\* main() returned: nothing is left to run and node exits with status 0.
ProcessExit ==
  /\ pc = "DONE"
  /\ exitStatus = NotExited
  /\ exitStatus' = 0
  /\ UNCHANGED << pc, started, completed, requests, failedStep, errorKind,
                  errorAttempt >>
  /\ UNCHANGED << discovered, keys, issuance, resolved, token, credential,
                  verifyRequest >>
  /\ UNCHANGED << codec, services >>

Next ==
  \/ Discover
  \/ KeyGen
  \/ Issue
  \/ ResolveOffer
  \/ PollGet
  \/ PollDelay
  \/ ExchangeCode
  \/ BuildProof
  \/ FetchCredential
  \/ StartVerify
  \/ ProcessExit

Spec == Init /\ [][Next]_vars

\* Every await of the script returns: the run goes on while a step is left.
FairSpec == Spec /\ WF_vars(Next)


\* ------------------------------------------- the offer resolvers on their own
\* PassportMDocIssuer.parseCredentialOffer(offerUrl) of mdoc-issuer.js: an
\* inline offer is parsed, an offer URI is fetched once, without retry.
IssuerParseOffer ==
  /\ pc = "ISSUER_PARSE_OFFER"
  /\ IF ~issuanceUrl.isString
     THEN /\ pc' = "ISSUER_PARSE_THROWN"
          /\ errorKind' = "client"
          /\ UNCHANGED << requests, offer, served >>
     ELSE IF UseInline(issuanceUrl)
     THEN IF issuanceUrl.credential_offer.kind = "json"
          THEN /\ pc' = "ISSUER_PARSE_RETURNED"
               /\ offer' = issuanceUrl.credential_offer.offer
               /\ UNCHANGED << requests, served, errorKind >>
          ELSE /\ pc' = "ISSUER_PARSE_THROWN"
               /\ errorKind' = "client"
               /\ UNCHANGED << requests, offer, served >>
     ELSE IF HasOfferUri(issuanceUrl)
     THEN /\ Send(OfferUriEndpoint)
          /\ \/ \E data \in Offers :
                  /\ pc' = "ISSUER_PARSE_RETURNED"
                  /\ offer' = data
                  /\ served' = data
                  /\ UNCHANGED errorKind
             \/ \E kind \in ServerErrors :
                  /\ pc' = "ISSUER_PARSE_THROWN"
                  /\ errorKind' = kind
                  /\ UNCHANGED << offer, served >>
     ELSE /\ pc' = "ISSUER_PARSE_THROWN"
          /\ errorKind' = "client"
          /\ UNCHANGED << requests, offer, served >>
  /\ UNCHANGED << started, completed, failedStep, exitStatus, errorAttempt >>
  /\ UNCHANGED << attempts, i, pollLog, waitedMs >>
  /\ UNCHANGED << discovered, keys, issuance, token, credential,
                  verifyRequest, codec, services >>

\* A resolver has just been called: resolveOfferIfUri(offerUrl) or
\* parseCredentialOffer(offerUrl) with an offer reference, or
\* fetchCredentialOfferWithRetry(offerUri, attempts) with an attempt count.
OfferInit ==
  /\ \/ /\ pc \in { "RESOLVE_OFFER", "ISSUER_PARSE_OFFER" }
        /\ issuanceUrl \in IssuanceUrls
        /\ attempts = DefaultAttempts
     \/ /\ pc = "POLL_GET"
        /\ issuanceUrl = IssuanceUrl(TRUE, NoInline, OfferUri)
        /\ attempts \in 1..MaxAttempts
  /\ InitLocals
  /\ InitCodec
  /\ InitServices

OfferNext ==
  \/ ResolveOffer
  \/ PollGet
  \/ PollDelay
  \/ IssuerParseOffer

OfferSpec == OfferInit /\ [][OfferNext]_vars


\* --------------------------------------------------- the offer URL codec
\* Strings of the codec are sequences of characters. The scheme and host of
\* the URL and the names of the parameter and of the offer's member are kept
\* as single elements: they hold unreserved characters only.
UrlPrefix == "openid-credential-offer://localhost/"
OfferParam == "credential_offer"
OfferMember == "pre-authorized_code"

\* Characters an offer's string value is made of.
ValueChars == { "x", "2", "5", "%", "&", "=", "?", "+" }
OfferValues == UNION { [1..n -> ValueChars] : n \in 0..MaxStrLen }

\* Characters encodeURIComponent leaves alone.
Unreserved ==
  { "x", "R", "U", "0", "1", "2", "3", "4", "5", "6", "7", "8", "9",
    "-", "_", ".", "!", "~", "*", "'", "(", ")",
    UrlPrefix, OfferParam, OfferMember }

HexDigits ==
  { "0", "1", "2", "3", "4", "5", "6", "7", "8", "9",
    "A", "B", "C", "D", "E", "F", "a", "b", "c", "d", "e", "f" }

\* The characters of the codec with their two hexadecimal digits.
AsciiHex ==
  { << " ", "2", "0" >>, << "\"", "2", "2" >>, << "%", "2", "5" >>,
    << "&", "2", "6" >>, << "+", "2", "B" >>, << ":", "3", "A" >>,
    << "=", "3", "D" >>, << "?", "3", "F" >>, << "R", "5", "2" >>,
    << "U", "5", "5" >>, << "{", "7", "B" >>, << "}", "7", "D" >> }

\* A byte the table does not list.
OtherChar == "<char>"

EncodeChar(c) ==
  IF c \in Unreserved
  THEN << c >>
  ELSE LET t == CHOOSE t \in AsciiHex : t[1] = c IN << "%", t[2], t[3] >>

RECURSIVE EncodeURIComponent(_)
EncodeURIComponent(s) ==
  IF s = << >>
  THEN << >>
  ELSE EncodeChar(Head(s)) \o EncodeURIComponent(Tail(s))

DecodeByte(h1, h2) ==
  IF \E t \in AsciiHex : t[2] = h1 /\ t[3] = h2
  THEN (CHOOSE t \in AsciiHex : t[2] = h1 /\ t[3] = h2)[1]
  ELSE OtherChar

IsEscape(s, k) ==
  /\ s[k] = "%"
  /\ k + 2 <= Len(s)
  /\ s[k + 1] \in HexDigits
  /\ s[k + 2] \in HexDigits

\* Percent-decoding that leaves a malformed escape as it is.
RECURSIVE PercentDecode(_)
PercentDecode(s) ==
  IF s = << >>
  THEN << >>
  ELSE IF IsEscape(s, 1)
  THEN << DecodeByte(s[2], s[3]) >> \o PercentDecode(SubSeq(s, 4, Len(s)))
  ELSE << Head(s) >> \o PercentDecode(Tail(s))

\* decodeURIComponent throws a URIError on a malformed escape.
DecodeURIComponent(s) ==
  IF \E k \in 1..Len(s) : s[k] = "%" /\ ~IsEscape(s, k)
  THEN [status |-> "URIError", value |-> << >>]
  ELSE [status |-> "ok", value |-> PercentDecode(s)]

PlusToSpace(s) == [k \in 1..Len(s) |-> IF s[k] = "+" THEN " " ELSE s[k]]

\* Position of the first c in s, 0 when there is none.
IndexOf(s, c) ==
  IF \E k \in 1..Len(s) : s[k] = c
  THEN CHOOSE k \in 1..Len(s) : s[k] = c /\ \A j \in 1..(k - 1) : s[j] # c
  ELSE 0

\* s.split(c)
RECURSIVE Split(_, _)
Split(s, c) ==
  LET k == IndexOf(s, c)
  IN IF k = 0
     THEN << s >>
     ELSE << SubSeq(s, 1, k - 1) >> \o Split(SubSeq(s, k + 1, Len(s)), c)

\* offerUrl.split('?')[1] || ''
QueryOf(url) ==
  LET parts == Split(url, "?")
  IN IF Len(parts) >= 2 THEN parts[2] ELSE << >>

\* One name=value pair of the query, as URLSearchParams reads it.
SearchParam(pair) ==
  LET k == IndexOf(pair, "=")
      name == IF k = 0 THEN pair ELSE SubSeq(pair, 1, k - 1)
      value == IF k = 0 THEN << >> ELSE SubSeq(pair, k + 1, Len(pair))
  IN [name |-> PercentDecode(PlusToSpace(name)),
      value |-> PercentDecode(PlusToSpace(value))]

\* new URLSearchParams(query).get(name): null without the parameter.
SearchParamsGet(query, name) ==
  LET pairs == Split(query, "&")
      hits == { k \in 1..Len(pairs) :
                  pairs[k] # << >> /\ SearchParam(pairs[k]).name = << name >> }
  IN IF hits = { }
     THEN [found |-> FALSE, value |-> << >>]
     ELSE LET k == CHOOSE k \in hits : \A j \in hits : k <= j
          IN [found |-> TRUE, value |-> SearchParam(pairs[k]).value]

\* JSON.stringify of an offer with one string member; the characters of
\* ValueChars need no escape in a JSON string.
JsonStringify(value) ==
  << "{", "\"", OfferMember, "\"", ":", "\"" >> \o value \o << "\"", "}" >>

\* JSON.parse of such a text; a quote inside the string ends it early and the
\* text is then no JSON.
JsonParse(text) ==
  LET n == Len(text)
      inner == SubSeq(text, 7, n - 2)
  IN IF /\ n >= 8
        /\ SubSeq(text, 1, 6) = << "{", "\"", OfferMember, "\"", ":", "\"" >>
        /\ SubSeq(text, n - 1, n) = << "\"", "}" >>
        /\ \A k \in 1..Len(inner) : inner[k] \notin { "\"", "\\" }
     THEN [status |-> "ok", value |-> inner]
     ELSE [status |-> "SyntaxError", value |-> << >>]

\* openid-credential-offer://localhost/?credential_offer=<urlencodedJSON>
OfferUrlOf(value) ==
  << UrlPrefix, "?", OfferParam, "=" >>
    \o EncodeURIComponent(JsonStringify(value))

\* parseCredentialOfferUrl(offerUrl); parseCredentialOffer of mdoc-issuer.js
\* reads an inline offer with the same four statements.
ParseCredentialOfferUrl(url) ==
  LET raw == SearchParamsGet(QueryOf(url), OfferParam)
  IN IF ~raw.found \/ raw.value = << >>
     THEN [status |-> "not found", value |-> << >>]
     ELSE LET decoded == DecodeURIComponent(raw.value)
          IN IF decoded.status # "ok"
             THEN decoded
             ELSE JsonParse(decoded.value)

\* The issuer side puts an offer into an offer URL.
EncodeOffer ==
  /\ pc = "CODEC_ENCODE"
  /\ rtUrl' = OfferUrlOf(rtValue)
  /\ pc' = "CODEC_PARSE"
  /\ UNCHANGED << rtValue, rtResult >>
  /\ UNCHANGED << started, completed, requests, failedStep, exitStatus,
                  errorKind, errorAttempt >>
  /\ UNCHANGED << discovered, keys, issuance, resolved, token, credential,
                  verifyRequest, services >>

\* The e2e script resolves the URL.
ParseOfferUrl ==
  /\ pc = "CODEC_PARSE"
  /\ rtResult' = ParseCredentialOfferUrl(rtUrl)
  /\ pc' = "CODEC_DONE"
  /\ UNCHANGED << rtValue, rtUrl >>
  /\ UNCHANGED << started, completed, requests, failedStep, exitStatus,
                  errorKind, errorAttempt >>
  /\ UNCHANGED << discovered, keys, issuance, resolved, token, credential,
                  verifyRequest, services >>

CodecInit ==
  /\ pc = "CODEC_ENCODE"
  /\ issuanceUrl = IssuanceUrl(FALSE, NoInline, Undefined)
  /\ attempts = DefaultAttempts
  /\ InitLocals
  /\ InitServices
  /\ rtValue \in OfferValues
  /\ rtUrl = << >>
  /\ rtResult = NoRoundTrip

CodecNext ==
  \/ EncodeOffer
  \/ ParseOfferUrl

CodecSpec == CodecInit /\ [][CodecNext]_vars


\* ------------------------------------------- the web authentication service
\* A session id no session was ever stored under (also a missing sessionId).
UnknownId == 0

\* returnUrl of the body of POST /auth/start: an URL, or nothing usable.
ReturnUrls == { "https://shop.example/return", Undefined }

\* vpToken of the body of POST /auth/present, by what decodeVP makes of it:
\* whether it decodes, carries verifiableCredential, carries a credential of
\* type PassportCredential, and that credential's webId and passportNumber.
Vp(decodes, hasList, hasPassport, webId, passportNumber) ==
  [decodes |-> decodes, hasList |-> hasList, hasPassport |-> hasPassport,
   webId |-> webId, passportNumber |-> passportNumber]

VpTokens ==
  { Vp(FALSE, FALSE, FALSE, Undefined, Undefined),
    Vp(TRUE, TRUE, TRUE, "did:web:alice", "X1234567"),
    Vp(TRUE, TRUE, TRUE, "did:web:bob", "Y7654321") }

\* verifyVP(vpToken): it has no await in it and never rejects.
VerifyVP(vp) ==
  IF ~vp.decodes
  THEN [valid |-> FALSE, error |-> "Failed to decode VP token", vp |-> vp]
  ELSE IF ~vp.hasList
  THEN [valid |-> FALSE, error |-> "Invalid VP structure", vp |-> vp]
  ELSE IF ~vp.hasPassport
  THEN [valid |-> FALSE, error |-> "No passport credential found", vp |-> vp]
  ELSE IF ~Truthy(vp.webId) \/ ~Truthy(vp.passportNumber)
  THEN [valid |-> FALSE, error |-> "Missing required claims", vp |-> vp]
  ELSE [valid |-> TRUE, error |-> Undefined, vp |-> vp]

\* extractUserInfo(vpData)
ExtractUserInfo(vp) == [webId |-> vp.webId, passportNumber |-> vp.passportNumber]

\* generateAuthToken(userInfo) at time now
GenerateAuthToken(userInfo, now) == [webId |-> userInfo.webId, issuedAt |-> now]

\* What the verifier answers to POST /openid4vc/verify: a body with or
\* without sessionId and request, or a failure.
VerifierAnswers ==
  { [ok |-> TRUE, sessionId |-> "verifier-session",
     request |-> "verifier-request"],
    [ok |-> TRUE, sessionId |-> Undefined, request |-> Undefined],
    [ok |-> FALSE, sessionId |-> Undefined, request |-> Undefined] }

\* Faulty variant: a failure of the verifier is passed on to the caller.
CreateVerificationSession_Rethrow(answer, challenge, fresh) ==
  [thrown |-> ~answer.ok,
   usedUuid |-> ~Truthy(answer.sessionId),
   sessionId |-> IF Truthy(answer.sessionId)
                 THEN [source |-> "verifier", uuid |-> 0]
                 ELSE [source |-> "local", uuid |-> fresh],
   presentationRequest |->
     IF Truthy(answer.request)
     THEN [source |-> "verifier", challenge |-> 0]
     ELSE [source |-> "own", challenge |-> challenge]]

\* createVerificationSession() from the answer of the verifier on: the ids
\* and the request of the verifier where it gave them, a fresh uuid and the
\* service's own request otherwise, also in the catch.
CreateVerificationSession(answer, challenge, fresh) ==
  [thrown |-> FALSE,
   usedUuid |-> ~(answer.ok /\ Truthy(answer.sessionId)),
   sessionId |-> IF answer.ok /\ Truthy(answer.sessionId)
                 THEN [source |-> "verifier", uuid |-> 0]
                 ELSE [source |-> "local", uuid |-> fresh],
   presentationRequest |->
     IF answer.ok /\ Truthy(answer.request)
     THEN [source |-> "verifier", challenge |-> 0]
     ELSE [source |-> "own", challenge |-> challenge]]

\* The session object startAuthFlow stores.
NewSession(sid, returnUrl, verification) ==
  [id |-> sid, returnUrl |-> returnUrl, status |-> "pending",
   verificationSessionId |-> verification.sessionId,
   presentationRequest |-> verification.presentationRequest,
   authToken |-> NoToken, userInfo |-> NoUserInfo, error |-> Undefined]

\* this.sessions.set(sid, session)
SessionsSet(map, sid, session) ==
  [x \in DOMAIN map \cup { sid } |-> IF x = sid THEN session ELSE map[x]]

\* An answer of the service: the HTTP status, what it is, and what it carries.
AuthAnswer(status, kind, sid, authToken, userInfo, location) ==
  [status |-> status, kind |-> kind, sid |-> sid, token |-> authToken,
   userInfo |-> userInfo, location |-> location]

\* The other variables of the module are not the service's.
AuthFrame ==
  /\ UNCHANGED << pc, started, completed, failedStep, exitStatus, errorKind,
                  errorAttempt >>
  /\ UNCHANGED << discovered, keys, issuance, resolved, token, credential,
                  verifyRequest, codec, readerServer, pkiScript >>

\* POST /auth/start up to the await in createVerificationSession: the
\* session id and the challenge are drawn and the verifier is asked.
StartBegin ==
  /\ pc = "AUTH_SERVICE"
  /\ Len(starts) < MaxStarts
  /\ \E returnUrl \in ReturnUrls :
       starts' = Append(starts,
                   [at |-> "AWAIT_VERIFIER", sessionId |-> uuids + 1,
                    challenge |-> uuids + 2, returnUrl |-> returnUrl,
                    verifierOk |-> FALSE,
                    reply |-> AuthAnswer(0, "none", UnknownId, NoToken,
                                         NoUserInfo, Undefined)])
  /\ uuids' = uuids + 2
  /\ Send(VerifyEndpoint)
  /\ UNCHANGED << sessions, presents, authReply, issued >>
  /\ AuthFrame

\* The verifier has answered or failed: startAuthFlow stores the session and
\* the route answers.
StartFinish ==
  /\ pc = "AUTH_SERVICE"
  /\ \E r \in 1..Len(starts), answer \in VerifierAnswers :
       LET st == starts[r]
           v == CreateVerificationSession(answer, st.challenge, uuids + 1)
       IN /\ st.at = "AWAIT_VERIFIER"
          /\ uuids' = IF v.usedUuid THEN uuids + 1 ELSE uuids
          /\ IF v.thrown
             THEN /\ sessions' = sessions
                  /\ starts' =
                       [starts EXCEPT ![r].at = "DONE",
                          ![r].verifierOk = answer.ok,
                          ![r].reply = AuthAnswer(500, "error", UnknownId,
                                         NoToken, NoUserInfo, Undefined)]
             ELSE /\ sessions' =
                       SessionsSet(sessions, st.sessionId,
                         NewSession(st.sessionId, st.returnUrl, v))
                  /\ starts' =
                       [starts EXCEPT ![r].at = "DONE",
                          ![r].verifierOk = answer.ok,
                          ![r].reply = AuthAnswer(200, "session",
                                         st.sessionId, NoToken, NoUserInfo,
                                         Undefined)]
  /\ UNCHANGED << requests, presents, authReply, issued >>
  /\ AuthFrame

\* Faulty variant: a presentation for an id without a session opens one.
OnUnknownSession_Create(sid) ==
  SessionsSet(sessions, sid,
    NewSession(sid, Undefined,
      [sessionId |-> [source |-> "local", uuid |-> 0],
       presentationRequest |-> [source |-> "own", challenge |-> 0]]))

\* if (!session) throw new Error('Session not found'): the map as it is
\* when the throw is reached.
OnUnknownSession(sid) == sessions

\* POST /auth/present up to the await of verifyVP: the session is looked up,
\* its status tested, and verifyVP runs to its return.
PresentBegin ==
  /\ pc = "AUTH_SERVICE"
  /\ Len(presents) < MaxPresents
  /\ \E sid \in DOMAIN sessions \cup { UnknownId }, vp \in VpTokens :
       IF sid \notin DOMAIN sessions
       THEN /\ presents' = Append(presents,
                 [at |-> "DONE", sessionId |-> sid, result |-> VerifyVP(vp),
                  ran |-> FALSE,
                  reply |-> AuthAnswer(400, "Session not found", sid, NoToken,
                                       NoUserInfo, Undefined)])
            /\ sessions' = OnUnknownSession(sid)
       ELSE IF sessions[sid].status # "pending"
       THEN /\ presents' = Append(presents,
                 [at |-> "DONE", sessionId |-> sid, result |-> VerifyVP(vp),
                  ran |-> FALSE,
                  reply |-> AuthAnswer(400, "Session already processed", sid,
                                       NoToken, NoUserInfo, Undefined)])
            /\ sessions' = sessions
       ELSE /\ presents' = Append(presents,
                 [at |-> "AWAIT_VERIFY", sessionId |-> sid,
                  result |-> VerifyVP(vp), ran |-> TRUE,
                  reply |-> AuthAnswer(0, "none", sid, NoToken, NoUserInfo,
                                       Undefined)])
            /\ sessions' = sessions
  /\ UNCHANGED << requests, uuids, starts, authReply, issued >>
  /\ AuthFrame

\* handleVPPresentation after the await: the session it looked up is
\* completed or failed, whatever its status is by now.
PresentResume ==
  /\ pc = "AUTH_SERVICE"
  /\ \E r \in 1..Len(presents) :
       LET p == presents[r]
           sid == p.sessionId
           userInfo == ExtractUserInfo(p.result.vp)
           authToken == GenerateAuthToken(userInfo, Len(issued) + 1)
       IN /\ p.at = "AWAIT_VERIFY"
          /\ IF p.result.valid
             THEN /\ sessions' = [sessions EXCEPT ![sid].status = "completed",
                                    ![sid].authToken = authToken,
                                    ![sid].userInfo = userInfo]
                  /\ issued' = Append(issued, [sid |-> sid, token |-> authToken])
                  /\ presents' =
                       [presents EXCEPT ![r].at = "DONE",
                          ![r].reply = AuthAnswer(200, "success", sid,
                                         authToken, userInfo, Undefined)]
             ELSE /\ sessions' = [sessions EXCEPT ![sid].status = "failed",
                                    ![sid].error = p.result.error]
                  /\ issued' = issued
                  /\ presents' =
                       [presents EXCEPT ![r].at = "DONE",
                          ![r].reply = AuthAnswer(400, "VP verification failed",
                                         sid, NoToken, NoUserInfo, Undefined)]
  /\ UNCHANGED << requests, uuids, starts, authReply >>
  /\ AuthFrame

\* GET /auth/status/:sessionId
AuthStatus ==
  /\ pc = "AUTH_SERVICE"
  /\ \E sid \in DOMAIN sessions \cup { UnknownId } :
       authReply' =
         IF sid \notin DOMAIN sessions
         THEN AuthAnswer(404, "status: Session not found", sid, NoToken,
                         NoUserInfo, Undefined)
         ELSE AuthAnswer(200, sessions[sid].status, sid,
                         sessions[sid].authToken, sessions[sid].userInfo,
                         Undefined)
  /\ UNCHANGED << requests, sessions, uuids, starts, presents, issued >>
  /\ AuthFrame

\* Faulty variant: every session that is no longer pending is redirected.
CallbackRedirects_NotPending(session) == session.status # "pending"

\* if (session.status === 'completed')
CallbackRedirects(session) == session.status = "completed"

\* GET /auth/callback/:sessionId. new URL(session.returnUrl) throws on a
\* return URL that is none, and the request then gets no redirect.
AuthCallback ==
  /\ pc = "AUTH_SERVICE"
  /\ \E sid \in DOMAIN sessions \cup { UnknownId } :
       authReply' =
         IF sid \notin DOMAIN sessions
         THEN AuthAnswer(404, "callback: Session not found", sid, NoToken,
                         NoUserInfo, Undefined)
         ELSE IF CallbackRedirects(sessions[sid])
         THEN IF Truthy(sessions[sid].returnUrl)
              THEN AuthAnswer(302, "redirect", sid, sessions[sid].authToken,
                              sessions[sid].userInfo, sessions[sid].returnUrl)
              ELSE AuthAnswer(500, "callback: Invalid URL", sid, NoToken,
                              NoUserInfo, Undefined)
         ELSE AuthAnswer(200, "waiting page", sid, NoToken, NoUserInfo,
                         Undefined)
  /\ UNCHANGED << requests, sessions, uuids, starts, presents, issued >>
  /\ AuthFrame

\* The service has been constructed and listens.
AuthInit ==
  /\ pc = "AUTH_SERVICE"
  /\ issuanceUrl = IssuanceUrl(FALSE, NoInline, Undefined)
  /\ attempts = DefaultAttempts
  /\ InitLocals
  /\ InitCodec
  /\ InitServices

AuthNext ==
  \/ StartBegin
  \/ StartFinish
  \/ PresentBegin
  \/ PresentResume
  \/ AuthStatus
  \/ AuthCallback

AuthSpec == AuthInit /\ [][AuthNext]_vars

\* The service when it is only asked to start flows.
StartNext ==
  \/ StartBegin
  \/ StartFinish

StartSpec == AuthInit /\ [][StartNext]_vars


\* --------------------------------------------------- setup-mdoc-pki.js
IacaEndpoint == "POST issuer /onboard/iso-mdl/iacas"
DsEndpoint == "POST issuer /onboard/iso-mdl/document-signers"

\* What the issuer answers to the IACA onboarding: a body with or without an
\* iacaKey and certificateData, an error status, or nothing.
IacaAnswers ==
  { [outcome |-> "ok", iacaKey |-> k, certificateData |-> c] :
      k \in { "iaca-key-1", "iaca-key-2", Undefined },
      c \in { "iaca-certificate", Undefined } }
    \cup { [outcome |-> o, iacaKey |-> Undefined,
            certificateData |-> Undefined] : o \in ServerErrors }

\* What it answers to the Document Signer onboarding.
DsAnswers ==
  { [outcome |-> "ok", documentSignerKey |-> k, certificatePEM |-> c] :
      k \in { "ds-key-1", Undefined }, c \in { "ds-certificate-pem", Undefined } }
    \cup { [outcome |-> o, documentSignerKey |-> Undefined,
            certificatePEM |-> Undefined] : o \in ServerErrors }

\* Faulty variant: the request carries a key of the script's own.
DsRequest_OwnKey(iaca) ==
  [iacaKey |-> "iaca-key-1", certificateData |-> iaca.certificateData]

\* dsRequest.iacaSigner of onboardDocumentSigner(iacaData)
DsRequest(iaca) ==
  [iacaKey |-> iaca.iacaKey, certificateData |-> iaca.certificateData]

\* The pkiSetup object setupFullPKI builds and writes.
PkiSetupOf(iaca, ds) ==
  [state |-> "setup", iacaKey |-> iaca.iacaKey,
   issuerKey |-> ds.documentSignerKey, x5Chain |-> << ds.certificatePEM >>]

PkiFrame ==
  /\ UNCHANGED << pc, started, completed >>
  /\ UNCHANGED << discovered, keys, issuance, resolved, token, credential,
                  verifyRequest, codec, webAuth, readerServer >>

\* The catch of main(): process.exit(1).
PkiFail(step, kind) ==
  /\ pkiPc' = "PKI_FAILED"
  /\ failedStep' = step
  /\ errorKind' = kind
  /\ exitStatus' = 1

\* main() up to its first await: --help prints the usage and exits with 0,
\* otherwise setupFullPKI and onboardIACA run up to the POST.
PkiMain ==
  /\ pkiPc \in { "PKI_MAIN", "PKI_MAIN_HELP" }
  /\ exitStatus = NotExited
  /\ IF pkiPc = "PKI_MAIN_HELP"
     THEN /\ pkiPc' = "PKI_EXITED"
          /\ exitStatus' = 0
          /\ UNCHANGED requests
     ELSE /\ pkiPc' = "PKI_IACA"
          /\ Send(IacaEndpoint)
          /\ UNCHANGED exitStatus
  /\ UNCHANGED << failedStep, errorKind, errorAttempt, pkiFile, iacaData,
                  dsData >>
  /\ PkiFrame

\* onboardIACA from the answer on, then onboardDocumentSigner up to its POST.
\* A body without iacaKey makes line 40 throw.
OnboardIACA ==
  /\ pkiPc = "PKI_IACA"
  /\ exitStatus = NotExited
  /\ \E answer \in IacaAnswers :
       IF answer.outcome # "ok"
       THEN /\ PkiFail("IACA", answer.outcome)
            /\ UNCHANGED << requests, iacaData, dsData >>
       ELSE IF ~Truthy(answer.iacaKey)
       THEN /\ PkiFail("IACA", "client")
            /\ UNCHANGED << requests, iacaData, dsData >>
       ELSE /\ iacaData' = [iacaKey |-> answer.iacaKey,
                            certificateData |-> answer.certificateData]
            /\ dsData' = [dsData EXCEPT !.sent = TRUE,
                            !.iacaKey = DsRequest(iacaData').iacaKey,
                            !.certificateData =
                              DsRequest(iacaData').certificateData]
            /\ Send(DsEndpoint)
            /\ pkiPc' = "PKI_DS"
            /\ UNCHANGED << failedStep, errorKind, exitStatus >>
  /\ UNCHANGED << errorAttempt, pkiFile >>
  /\ PkiFrame

\* onboardDocumentSigner from the answer on, then setupFullPKI up to
\* writeFile. A body without documentSignerKey makes line 75 throw.
OnboardDS ==
  /\ pkiPc = "PKI_DS"
  /\ exitStatus = NotExited
  /\ \E answer \in DsAnswers :
       IF answer.outcome # "ok"
       THEN /\ PkiFail("DS", answer.outcome)
            /\ UNCHANGED dsData
       ELSE IF ~Truthy(answer.documentSignerKey)
       THEN /\ PkiFail("DS", "client")
            /\ UNCHANGED dsData
       ELSE /\ dsData' = [dsData EXCEPT
                            !.documentSignerKey = answer.documentSignerKey,
                            !.certificatePEM = answer.certificatePEM]
            /\ pkiPc' = "PKI_WRITE"
            /\ UNCHANGED << failedStep, errorKind, exitStatus >>
  /\ UNCHANGED << requests, errorAttempt, pkiFile, iacaData >>
  /\ PkiFrame

\* writeFile('mdoc-pki-setup.json', ...) returns, or it rejects and may have
\* left a truncated file behind.
WriteSetup ==
  /\ pkiPc = "PKI_WRITE"
  /\ exitStatus = NotExited
  /\ \/ /\ pkiFile' = PkiSetupOf(iacaData, dsData)
        /\ fileOps' = Append(fileOps, "write")
        /\ pkiPc' = "PKI_DONE"
        /\ UNCHANGED << failedStep, errorKind, exitStatus >>
     \/ /\ pkiFile' \in { pkiFile, CorruptFile }
        /\ fileOps' = Append(fileOps, "write failed")
        /\ PkiFail("WRITE", "client")
  /\ UNCHANGED << requests, errorAttempt, iacaData, dsData >>
  /\ UNCHANGED << pc, started, completed >>
  /\ UNCHANGED << discovered, keys, issuance, resolved, token, credential,
                  verifyRequest, codec, webAuth >>
  /\ UNCHANGED << readerPc, body, readerReply, pkiSetup >>

\* main() has returned and nothing keeps the process of the script alive.
PkiExit ==
  /\ pkiPc = "PKI_DONE"
  /\ readerPc = "READER_OFF"
  /\ exitStatus = NotExited
  /\ exitStatus' = 0
  /\ UNCHANGED << requests, failedStep, errorKind, errorAttempt >>
  /\ UNCHANGED pkiScript
  /\ PkiFrame

\* node setup-mdoc-pki.js [--help], with or without a file of an earlier run.
PkiInit ==
  /\ pc = "IDLE"
  /\ issuanceUrl = IssuanceUrl(FALSE, NoInline, Undefined)
  /\ attempts = DefaultAttempts
  /\ InitLocals
  /\ InitCodec
  /\ InitAuth
  /\ InitReader
  /\ pkiPc \in { "PKI_MAIN", "PKI_MAIN_HELP" }
  /\ pkiFile \in { NoFile, CorruptFile,
                   PkiSetupOf([iacaKey |-> "iaca-key-0"],
                              [documentSignerKey |-> "ds-key-0",
                               certificatePEM |-> "ds-certificate-0"]) }
  /\ iacaData = NoIacaData
  /\ dsData = NoDsData

PkiNext ==
  \/ PkiMain
  \/ OnboardIACA
  \/ OnboardDS
  \/ WriteSetup
  \/ PkiExit

PkiSpec == PkiInit /\ [][PkiNext]_vars


\* ------------------------------------------- passport-reader-server.js
MdocIssueEndpoint == "POST issuer /openid4vc/mdoc/issue"

\* req.body of POST /api/issue-mdoc
Bodies ==
  { [passportData |-> p, webId |-> w] :
      p \in { Undefined, ObjectValue },
      w \in { Undefined, "", "did:web:alice" } }

\* Faulty variant: only the passport data is required.
MissingInput_PassportOnly(b) == ~Truthy(b.passportData)

\* !passportData || !webId
MissingInput(b) == ~Truthy(b.passportData) \/ ~Truthy(b.webId)

\* The names setup-mdoc-pki.js exports.
ExportedNames == { "MDLPKISetup" }

\* const { name } = await import('./setup-mdoc-pki.js')
Imported(name) == IF name \in ExportedNames THEN "<function>" ELSE Undefined

ReaderAnswer(status, kind, details) ==
  [status |-> status, kind |-> kind, details |-> details]

\* What a reader step leaves alone besides its own state.
ReaderFrame ==
  /\ UNCHANGED << failedStep, exitStatus, errorAttempt >>
  /\ UNCHANGED << discovered, keys, resolved, token, credential,
                  verifyRequest, codec, webAuth >>
  /\ UNCHANGED << pkiFile, iacaData, dsData >>

\* res.status(...).json(...) / res.json(result): the request is over.
ReaderRespond(answer) ==
  /\ readerReply' = answer
  /\ readerPc' = "READER_LISTENING"
  /\ completed' = Append(completed, "ISSUE_MDOC")

\* POST /api/issue-mdoc up to the await of fs.readFile: a request without
\* passportData or webId is answered with 400 at once.
ReaderReceive ==
  /\ readerPc = "READER_LISTENING"
  /\ exitStatus = NotExited
  /\ Len(started) < MaxIssueRequests
  /\ started' = Append(started, "ISSUE_MDOC")
  /\ pkiSetup' = NotRead
  /\ \E b \in Bodies :
       /\ body' = b
       /\ IF MissingInput(b)
          THEN /\ ReaderRespond(ReaderAnswer(400,
                    "Missing passport data or web ID", Undefined))
               /\ UNCHANGED fileOps
          ELSE /\ readerReply' = NoReply
               /\ readerPc' = "READER_READ_FILE"
               /\ fileOps' = Append(fileOps, "read")
               /\ UNCHANGED completed
  /\ UNCHANGED << pc, requests, errorKind, issuance, pkiPc >>
  /\ ReaderFrame

\* fs.readFile and JSON.parse have answered: with a setup the issuance request
\* is sent; without one the catch imports setup-mdoc-pki.js, whose first
\* evaluation calls main() (lines 162-165).
ReaderLoadPki ==
  /\ readerPc = "READER_READ_FILE"
  /\ exitStatus = NotExited
  /\ pkiSetup' = pkiFile
  /\ IF pkiFile.state = "setup"
     THEN /\ issuanceRequest' =
               [sent |-> TRUE,
                credentialConfigurationId |-> "org.iso.18013.5.1.mDL",
                credentialType |-> Undefined,
                issuerKey |-> pkiFile.issuerKey,
                authenticationMethod |-> Undefined,
                x5Chain |-> pkiFile.x5Chain,
                webId |-> body.webId]
          /\ Send(MdocIssueEndpoint)
          /\ readerPc' = "READER_ISSUE"
          /\ UNCHANGED pkiPc
     ELSE /\ readerPc' = "READER_IMPORT"
          /\ pkiPc' = IF pkiPc = "PKI_NOT_LOADED" THEN "PKI_MAIN" ELSE pkiPc
          /\ UNCHANGED << issuanceRequest, requests >>
  /\ UNCHANGED << pc, started, completed, errorKind, issuanceUrl, body,
                  readerReply, fileOps >>
  /\ ReaderFrame

\* The import has resolved (the module is evaluated, main() is at its first
\* await or beyond): setupMDocPKI is taken from the namespace and called. The
\* module exports no such name, the call throws a TypeError and the outer
\* catch answers 500.
ReaderCallSetup ==
  /\ readerPc = "READER_IMPORT"
  /\ pkiPc \notin { "PKI_NOT_LOADED", "PKI_MAIN" }
  /\ exitStatus = NotExited
  /\ ~Truthy(Imported("setupMDocPKI"))
  /\ ReaderRespond(ReaderAnswer(500, "Failed to issue credential",
                                "setupMDocPKI is not a function"))
  /\ errorKind' = "client"
  /\ UNCHANGED << pc, started, requests, issuance, body, pkiSetup, fileOps,
                  pkiPc >>
  /\ ReaderFrame

\* issuer.issueMDoc from the answer on: the body is the offer URL, or the
\* rejection reaches the outer catch.
ReaderIssue ==
  /\ readerPc = "READER_ISSUE"
  /\ exitStatus = NotExited
  /\ \/ \E url \in IssuanceUrls :
          /\ issuanceUrl' = url
          /\ pc' = "ISSUER_PARSE_OFFER"
          /\ readerPc' = "READER_PARSE"
          /\ UNCHANGED << readerReply, completed, errorKind >>
     \/ \E kind \in ServerErrors :
          /\ ReaderRespond(ReaderAnswer(500, "Failed to issue credential",
                                        "Issuance failed"))
          /\ errorKind' = kind
          /\ UNCHANGED << pc, issuanceUrl >>
  /\ UNCHANGED << started, requests, issuanceRequest, body, pkiSetup, fileOps,
                  pkiPc >>
  /\ ReaderFrame

\* issuer.parseCredentialOffer has settled: the result is built (reading
\* offer.credential_issuer throws on null) and sent, or the catch answers 500.
ReaderReply ==
  /\ readerPc = "READER_PARSE"
  /\ pc \in { "ISSUER_PARSE_RETURNED", "ISSUER_PARSE_THROWN" }
  /\ exitStatus = NotExited
  /\ pc' = "IDLE"
  /\ IF pc = "ISSUER_PARSE_RETURNED" /\ offer.present
     THEN /\ ReaderRespond(ReaderAnswer(200, "credentialOffer", Undefined))
          /\ UNCHANGED errorKind
     ELSE /\ ReaderRespond(ReaderAnswer(500, "Failed to issue credential",
                 IF pc = "ISSUER_PARSE_THROWN"
                 THEN "parseCredentialOffer threw"
                 ELSE "Cannot read properties of null"))
          /\ errorKind' = "client"
  /\ UNCHANGED << started, requests, issuance, body, pkiSetup, fileOps,
                  pkiPc >>
  /\ ReaderFrame

\* The server listens; mdoc-pki-setup.json may or may not be there.
ReaderInit ==
  /\ pc = "IDLE"
  /\ issuanceUrl = IssuanceUrl(FALSE, NoInline, Undefined)
  /\ attempts = DefaultAttempts
  /\ InitLocals
  /\ InitCodec
  /\ InitAuth
  /\ readerPc = "READER_LISTENING"
  /\ body = NoBody
  /\ readerReply = NoReply
  /\ pkiSetup = NotRead
  /\ fileOps = << >>
  /\ pkiPc = "PKI_NOT_LOADED"
  /\ pkiFile \in { NoFile, CorruptFile,
                   PkiSetupOf([iacaKey |-> "iaca-key-0"],
                              [documentSignerKey |-> "ds-key-0",
                               certificatePEM |-> "ds-certificate-0"]) }
  /\ iacaData = NoIacaData
  /\ dsData = NoDsData

ReaderNext ==
  \/ ReaderReceive
  \/ ReaderLoadPki
  \/ ReaderCallSetup
  \/ ReaderIssue
  \/ IssuerParseOffer
  \/ ReaderReply
  \/ PkiMain
  \/ OnboardIACA
  \/ OnboardDS
  \/ WriteSetup

ReaderSpec == ReaderInit /\ [][ReaderNext]_vars

\* ============================================================== claims
InSeq(x, q) == \E k \in 1..Len(q) : q[k] = x
Count(x, q) == Cardinality({ k \in 1..Len(q) : q[k] = x })

\* The step that sends to an endpoint.
StepOfEndpoint(e) ==
  CASE e = MetadataEndpoint -> "DISCOVER"
    [] e = IssueEndpoint -> "ISSUE"
    [] e = OfferUriEndpoint -> "RESOLVE_OFFER"
    [] e = TokenEndpoint -> "EXCHANGE_CODE"
    [] e = CredentialEndpoint -> "FETCH_CREDENTIAL"
    [] e = VerifyEndpoint -> "START_VERIFY"

\* b may be entered right after a: the next step of the list, or
\* FETCH_CREDENTIAL after EXCHANGE_CODE when no proof is built.
Follows(a, b) ==
  \/ StepIndex(b) = StepIndex(a) + 1
  \/ a = "EXCHANGE_CODE" /\ b = "FETCH_CREDENTIAL"

\* C1: the steps are entered in the order DISCOVER, KEYGEN, ISSUE,
\* RESOLVE_OFFER, EXCHANGE_CODE, (PROOF only when the token response carries
\* a nonce), FETCH_CREDENTIAL, START_VERIFY, DONE: each entered step follows
\* the one before it, which has completed successfully; none but PROOF is
\* skipped and none is entered twice.
C1_StepOrder ==
  /\ Len(started) > 0 => started[1] = "DISCOVER"
  /\ \A k \in 1..(Len(started) - 1) :
       /\ Follows(started[k], started[k + 1])
       /\ k <= Len(completed)
       /\ completed[k] = started[k]
  /\ Len(completed) <= Len(started)
  /\ InSeq("PROOF", started) => tokenResp.c_nonce # Undefined
  /\ pc = "DONE" => started[Len(started)] = "DONE"

C1_Witness == pc = "DONE" /\ started = Steps

\* C2: once a step has failed the run is over: the failing step is the last
\* one entered, every request sent belongs to it or to an earlier step, and
\* no request is sent from then on.
C2_FailureState ==
  failedStep # NoStep =>
    /\ pc = "ERROR"
    /\ started[Len(started)] = failedStep
    /\ \A k \in 1..Len(requests) :
         StepIndex(StepOfEndpoint(requests[k])) <= StepIndex(failedStep)

C2_AbortOnFailure ==
  /\ []C2_FailureState
  /\ [][failedStep # NoStep => requests' = requests]_vars

C2_Witness ==
  /\ failedStep = "EXCHANGE_CODE"
  /\ tokenRequest.sent
  /\ ~credentialRequest.sent
  /\ ~verifyRequest.sent

\* C3: the exit status is 0 only after DONE was reached without a failure,
\* and it is 1 exactly when a step failed; a run at DONE can only exit 0.
C3_ExitStatus ==
  /\ exitStatus \in { NotExited, 0, 1 }
  /\ exitStatus = 0 => pc = "DONE" /\ failedStep = NoStep
  /\ exitStatus = 1 <=> failedStep # NoStep
  /\ pc = "ERROR" <=> failedStep # NoStep
  /\ pc = "DONE" => exitStatus \in { NotExited, 0 }
  /\ pc = "DONE" /\ exitStatus = NotExited => ENABLED ProcessExit
  /\ exitStatus = NotExited /\ pc # "DONE" => ENABLED Next

C3_Witness == exitStatus = 1 /\ failedStep = "FETCH_CREDENTIAL"

\* The pre-authorized codes an offer carries, under the current or the legacy
\* grant-type key.
PreAuthCodes(o) ==
  IF ~(o.present /\ o.grants.present) THEN { }
  ELSE { c \in { g.pre_authorized_code : g \in { o.grants.current,
                                                  o.grants.legacy } }
               \cup { g.pre_dash_authorized_code :
                        g \in { o.grants.current, o.grants.legacy } } :
           Truthy(c) }

\* The offer has no authorization-code reference and no pre-authorized code.
NoRecognizableGrant(o) ==
  /\ PreAuthCodes(o) = { }
  /\ ~(o.present /\ o.grants.present /\ o.grants.authorization_code.present
       /\ Truthy(o.grants.authorization_code.issuer_state))

\* C4: when the resolved offer has no recognizable grant, no request goes to
\* the token endpoint, and the code-exchange step, once entered, has failed
\* the run with exit status 1.
C4_NoGrantAborts ==
  InSeq("RESOLVE_OFFER", completed) /\ NoRecognizableGrant(offer) =>
    /\ ~InSeq(TokenEndpoint, requests)
    /\ ~tokenRequest.sent
    /\ InSeq("EXCHANGE_CODE", started) =>
         pc = "ERROR" /\ failedStep = "EXCHANGE_CODE" /\ exitStatus = 1

C4_Witness ==
  /\ failedStep = "EXCHANGE_CODE"
  /\ offer.present
  /\ offer.grants.present
  /\ offer.grants.current.present
  /\ NoRecognizableGrant(offer)
  /\ ~InSeq(TokenEndpoint, requests)

\* C5: whenever the offer carries a pre-authorized code, the code sent to the
\* token endpoint under the pre-authorized-code grant type is that code, also
\* when the offer carries an authorization_code grant as well.
C5_PreAuthCodeSent ==
  tokenRequest.sent /\ PreAuthCodes(offer) # { } =>
    /\ tokenRequest.grant_type = PreAuthGrantType
    /\ tokenRequest.pre_authorized_code \in PreAuthCodes(offer)

\* C6: when the token response omits c_nonce, the proof builder is never
\* invoked and the credential request carries no proof field.
C6_NoNonceNoProof ==
  InSeq("EXCHANGE_CODE", completed) /\ tokenResp.c_nonce = Undefined =>
    /\ ~InSeq("PROOF", started)
    /\ ~proofBuilt
    /\ proof = NoJwt
    /\ credentialRequest.sent => ~credentialRequest.proof.present

C6_Witness ==
  /\ credentialRequest.sent
  /\ InSeq("EXCHANGE_CODE", completed)
  /\ tokenResp.c_nonce = Undefined

\* C7: whenever the token response carries a c_nonce field, whatever string
\* it holds, the credential request carries a proof {proof_type: 'jwt', jwt}.
C7_NonceImpliesProof ==
  credentialRequest.sent /\ tokenResp.c_nonce # Undefined =>
    /\ credentialRequest.proof.present
    /\ credentialRequest.proof.proof_type = "jwt"
    /\ credentialRequest.proof.jwt # NoJwt

\* C8: a proof that was built carries the c_nonce of this run's token
\* response as its nonce claim, and so does the proof the credential request
\* carries.
C8_NonceVerbatim ==
  /\ proofBuilt => proof.payload.nonce = tokenResp.c_nonce
  /\ credentialRequest.sent /\ credentialRequest.proof.present =>
       credentialRequest.proof.jwt.payload.nonce = tokenResp.c_nonce

C8_Witness ==
  /\ credentialRequest.sent
  /\ credentialRequest.proof.present
  /\ proofBuilt
  /\ tokenResp.c_nonce = "n2"

\* C9: the metadata, issuance, token, credential and verifier endpoints each
\* receive at most one request in a run; only the offer URI is asked again.
C9_NoRetry ==
  \A e \in { MetadataEndpoint, IssueEndpoint, TokenEndpoint,
             CredentialEndpoint, VerifyEndpoint } :
    Count(e, requests) <= 1

C9_Witness ==
  /\ pc = "DONE"
  /\ Count(OfferUriEndpoint, requests) = 3
  /\ \A e \in { MetadataEndpoint, IssueEndpoint, TokenEndpoint,
                CredentialEndpoint, VerifyEndpoint } :
       Count(e, requests) = 1

InPoll == pc \in { "POLL_GET", "POLL_DELAY" }
IsGet(ev) == ev \in { "get_ok", "get_fail" }

\* The poll's GETs and delays so far are well-formed.
C10_PollShape ==
  /\ Count(OfferUriEndpoint, requests) <= DefaultAttempts
  /\ Count(OfferUriEndpoint, requests) =
       Cardinality({ k \in 1..Len(pollLog) : IsGet(pollLog[k]) })
  /\ \A k \in 1..Len(pollLog) :
       /\ pollLog[k] = "delay" =>
            /\ k > 1
            /\ pollLog[k - 1] = "get_fail"
            /\ IF k = Len(pollLog) THEN pc = "POLL_GET"
               ELSE IsGet(pollLog[k + 1])
       /\ IsGet(pollLog[k]) /\ k > 1 => pollLog[k - 1] = "delay"
       /\ pollLog[k] = "get_ok" => k = Len(pollLog)
  /\ waitedMs = DefaultDelayMs * Count("delay", pollLog)
  /\ pollLog # << >> /\ ~InPoll =>
       \/ /\ pollLog[Len(pollLog)] = "get_ok"
          /\ InSeq("RESOLVE_OFFER", completed)
       \/ /\ pollLog[Len(pollLog)] = "get_fail"
          /\ Len(pollLog) = 2 * DefaultAttempts - 1
          /\ failedStep = "RESOLVE_OFFER"

\* C10: the offer poll sends at most DefaultAttempts GETs, waits only
\* between a failed GET and the next GET, and, every GET returning, always
\* ends, with an offer or with an error.
C10_PollBounded ==
  /\ []C10_PollShape
  /\ InPoll ~> ~InPoll

C10_Witness ==
  /\ failedStep = "RESOLVE_OFFER"
  /\ Count(OfferUriEndpoint, requests) = DefaultAttempts
  /\ Count("delay", pollLog) = DefaultAttempts - 1
  /\ waitedMs = 2000

\* A resolver was called and has gone past its first statement.
ResolverRan == pc \notin { "RESOLVE_OFFER", "ISSUER_PARSE_OFFER" }
ResolverThrew == pc \in { "ERROR", "ISSUER_PARSE_THROWN" }
ResolverReturned == pc \in { "EXCHANGE_CODE", "ISSUER_PARSE_RETURNED" }

\* C11: for every attempt count from 1 up, the offer poll fails exactly when
\* all its attempts failed, and then with the error of the last attempt; a
\* GET that succeeds after k-1 failures ends the poll with that GET's body,
\* and no GET follows it.
C11_PollOutcome ==
  LET fails == Count("get_fail", pollLog)
      gets == Count(OfferUriEndpoint, requests)
  IN pollLog # << >> =>
       /\ attempts >= 1
       /\ fails <= attempts
       /\ fails = attempts <=> pc = "ERROR"
       /\ pc = "ERROR" =>
            /\ failedStep = "RESOLVE_OFFER"
            /\ errorKind \in ServerErrors
            /\ errorAttempt = attempts
            /\ gets = attempts
            /\ offer = NullOffer
       /\ \A k \in 1..Len(pollLog) :
            pollLog[k] = "get_ok" =>
              /\ k = Len(pollLog)
              /\ k = 2 * fails + 1
              /\ gets = fails + 1
              /\ fails < attempts
              /\ pc = "EXCHANGE_CODE"
              /\ offer = served
       /\ ~InPoll => pc = "ERROR" \/ pollLog[Len(pollLog)] = "get_ok"

C11_Witness ==
  /\ attempts = 3
  /\ pollLog = << "get_fail", "delay", "get_fail", "delay", "get_ok" >>
  /\ pc = "EXCHANGE_CODE"
  /\ offer.present
  /\ offer = served

\* The reference has no usable credential_offer and no usable
\* credential_offer_uri parameter.
NeitherParameter(url) ==
  /\ url.isString
  /\ url.credential_offer.kind \in { "absent", "empty" }
  /\ url.credential_offer_uri \in { Undefined, "" }

\* C12: an offer reference with neither credential_offer nor
\* credential_offer_uri makes resolution fail with an error of the resolver
\* itself, and nothing is fetched.
C12_NeitherParameterFails ==
  NeitherParameter(issuanceUrl) /\ ResolverRan =>
    /\ ResolverThrew
    /\ errorKind = "client"
    /\ requests = << >>
    /\ pollLog = << >>
    /\ offer = NullOffer

C12_Witness ==
  /\ pc = "ERROR"
  /\ failedStep = "RESOLVE_OFFER"
  /\ issuanceUrl.isString
  /\ issuanceUrl.credential_offer.kind = "absent"
  /\ issuanceUrl.credential_offer_uri = Undefined

C13_RoundTrip ==
  pc = "CODEC_DONE" => rtResult = [status |-> "ok", value |-> rtValue]

\* The same for values without a percent sign.
C13_RoundTripWithoutPercent ==
  pc = "CODEC_DONE" /\ (\A k \in 1..Len(rtValue) : rtValue[k] # "%") =>
    rtResult = [status |-> "ok", value |-> rtValue]

\* The format the credential request asks for.
RequestedFormat == "jwt_vc_json"

\* Smallest member of a non-empty set of indices.
MinOf(S) == CHOOSE k \in S : \A j \in S : k <= j

\* The entry the statement of C14 selects from a non-empty listing: the first
\* one of the requested format, else the first one.
FirstOfRequestedFormat(entries) ==
  LET hits == { k \in 1..Len(entries) : entries[k].format = RequestedFormat }
  IN IF hits = { } THEN entries[1] ELSE entries[MinOf(hits)]

FirstJwtCapable(entries) ==
  LET hits == { k \in 1..Len(entries) :
                  entries[k].format \in { "jwt_vc_json", "jwt_vc" } }
  IN IF hits = { } \/ entries[MinOf(hits)].id = ""
     THEN entries[1]
     ELSE entries[MinOf(hits)]

CredentialAnswered ==
  /\ credentialRequest.sent
  /\ ~(failedStep = "FETCH_CREDENTIAL" /\ errorKind \in ServerErrors)
  /\ pc # "FETCH_CREDENTIAL"

\* C15: a credential is extracted exactly when one of credential, jwt, vc of
\* the response is populated, and it is the value of the first populated one
\* in that order; the other two need not be there.
C15_FirstPopulatedField ==
  LET r == credentialResp
  IN /\ Truthy(credentialJwt) <=>
          Truthy(r.credential) \/ Truthy(r.jwt) \/ Truthy(r.vc)
     /\ Truthy(r.credential) => credentialJwt = r.credential
     /\ ~Truthy(r.credential) /\ Truthy(r.jwt) => credentialJwt = r.jwt
     /\ ~Truthy(r.credential) /\ ~Truthy(r.jwt) /\ Truthy(r.vc) =>
          credentialJwt = r.vc
     /\ CredentialAnswered => (warned <=> ~Truthy(credentialJwt))
     /\ ~CredentialAnswered => credentialJwt = Undefined /\ ~warned

C15_Witness ==
  /\ CredentialAnswered
  /\ credentialResp =
       [credential |-> Undefined, jwt |-> "", vc |-> VcMemberValue]
  /\ credentialJwt = VcMemberValue
  /\ pc = "START_VERIFY"

HasPreAuthCode(o) ==
  /\ o.present
  /\ o.grants.present
  /\ LET g == IF o.grants.current.present THEN o.grants.current
              ELSE o.grants.legacy
     IN /\ g.present
        /\ Truthy(g.pre_authorized_code) \/ Truthy(g.pre_dash_authorized_code)

\* Up to now every call has succeeded, with answers of the kind the mocked
\* scenario gives: a listing with an entry, an offer URL with an inline offer
\* or an offer URI, an offer with a pre-authorized code, a token response with
\* a nonce and a credential response with a credential string.
AllCallsSucceeded ==
  /\ errorKind \notin ServerErrors \cup { "crypto" }
  /\ InSeq("DISCOVER", started) => issuerMeta # << >>
  /\ InSeq("ISSUE", started) =>
       /\ issuanceUrl.isString
       /\ \/ issuanceUrl.credential_offer.kind = "json"
          \/ /\ issuanceUrl.credential_offer.kind \in { "absent", "empty" }
             /\ Truthy(issuanceUrl.credential_offer_uri)
  /\ offer.present => HasPreAuthCode(offer)
  /\ issuanceUrl.credential_offer.kind = "json" =>
       HasPreAuthCode(issuanceUrl.credential_offer.offer)
  /\ pollLog # << >> /\ ~InPoll => offer.present
  /\ tokenRequest.sent => Truthy(tokenResp.c_nonce)
  /\ credentialRequest.sent =>
       /\ credentialJwt # ObjectValue
       /\ Truthy(credentialJwt)

FirstAt(x, q) ==
  IF InSeq(x, q)
  THEN CHOOSE k \in 1..Len(q) : q[k] = x /\ \A j \in 1..(k - 1) : q[j] # x
  ELSE 0

C19_ValuesThreaded ==
  /\ [](/\ issuanceRequest.sent =>
             issuanceRequest.credentialConfigurationId = pickedId
        /\ credentialRequest.sent =>
             /\ credentialRequest.credential_configuration_id = pickedId
             /\ credentialRequest.credential_configuration_id =
                  issuanceRequest.credentialConfigurationId
             /\ pickedId = picked.id
             /\ credentialRequest.bearer = tokenResp.access_token)
  /\ [][/\ InSeq("DISCOVER", completed) =>
             /\ pickedId' = pickedId
             /\ picked' = picked
        /\ InSeq("RESOLVE_OFFER", completed) => offer' = offer
        /\ InSeq("EXCHANGE_CODE", completed) => tokenResp' = tokenResp
        /\ issuanceRequest.sent => issuanceRequest' = issuanceRequest
        /\ credentialRequest.sent => credentialRequest' = credentialRequest
       ]_vars

C19_Witness ==
  /\ credentialRequest.sent
  /\ pickedId = "legacy-id"
  /\ issuanceRequest.credentialConfigurationId = "legacy-id"
  /\ credentialRequest.credential_configuration_id = "legacy-id"
  /\ tokenResp.access_token = "tok1"
  /\ credentialRequest.bearer = "tok1"
  /\ pc = "DONE"

\* C30: the format sent in the credential request is the format of the
\* configuration selected at discovery, also when the first entry was taken
\* as fallback.
C30_FormatOfSelected ==
  credentialRequest.sent => credentialRequest.format = picked.format

\* C21: a session is created pending and its status only goes from pending
\* to completed or to failed; once it is completed or failed no request
\* changes it again.
C21_StatusFinal ==
  [][/\ \A sid \in DOMAIN sessions :
          /\ sid \in DOMAIN sessions'
          /\ sessions[sid].status # "pending" =>
               sessions'[sid].status = sessions[sid].status
     /\ \A sid \in DOMAIN sessions' \ DOMAIN sessions :
          sessions'[sid].status = "pending"
    ]_vars

\* C22: a session holds an auth token and a user info exactly when its
\* status is completed.
C22_TokenIffCompleted ==
  \A sid \in DOMAIN sessions :
    (sessions[sid].authToken # NoToken /\ sessions[sid].userInfo # NoUserInfo)
      <=> sessions[sid].status = "completed"

\* C23: for a session at most one presentation succeeds and at most one auth
\* token is generated, also when two presentations are in flight at once.
C23_OneSuccessPerSession ==
  \A sid \in DOMAIN sessions :
    /\ Cardinality({ r \in 1..Len(presents) :
                       /\ presents[r].sessionId = sid
                       /\ presents[r].reply.kind = "success" }) <= 1
    /\ Cardinality({ k \in 1..Len(issued) : issued[k].sid = sid }) <= 1

\* The step answers a GET /auth/callback/:sessionId.
CallbackAnswered ==
  /\ authReply'.kind \in { "callback: Session not found", "redirect",
                           "waiting page", "callback: Invalid URL" }
  /\ UNCHANGED << sessions, starts, presents >>

\* C24: the callback redirects to the return URL only for a completed
\* session, with that session's authToken and webId; for a pending or failed
\* session it gives the waiting page, for an unknown id 404.
C24_CallbackByStatus ==
  [][CallbackAnswered =>
       LET a == authReply'
           known == a.sid \in DOMAIN sessions
       IN /\ a.status = 404 <=> ~known
          /\ a.kind = "redirect" =>
               /\ known
               /\ a.status = 302
               /\ sessions[a.sid].status = "completed"
               /\ a.location = sessions[a.sid].returnUrl
               /\ a.token = sessions[a.sid].authToken
               /\ a.userInfo.webId = sessions[a.sid].userInfo.webId
          /\ known /\ sessions[a.sid].status \in { "pending", "failed" } =>
               /\ a.kind = "waiting page"
               /\ a.status = 200
    ]_vars

C24_Witness ==
  /\ authReply.kind = "redirect"
  /\ authReply.sid \in DOMAIN sessions
  /\ sessions[authReply.sid].status = "completed"
  /\ authReply.token = sessions[authReply.sid].authToken
  /\ authReply.token.webId = "did:web:alice"
  /\ \E sid \in DOMAIN sessions : sessions[sid].status = "failed"

\* C25: a presentation naming an unknown session id fails with 'Session not
\* found' and leaves the session map as it was.
C25_UnknownSessionNoEffect ==
  /\ [](UnknownId \notin DOMAIN sessions)
  /\ [][Len(presents') > Len(presents)
          /\ presents'[Len(presents')].sessionId \notin DOMAIN sessions =>
            /\ sessions' = sessions
            /\ issued' = issued
            /\ presents'[Len(presents')].at = "DONE"
            /\ presents'[Len(presents')].reply.status = 400
            /\ presents'[Len(presents')].reply.kind = "Session not found"
       ]_vars

C25_Witness ==
  /\ \E r \in 1..Len(presents) :
       /\ presents[r].sessionId = UnknownId
       /\ presents[r].result.valid
       /\ presents[r].reply.kind = "Session not found"
  /\ \E sid \in DOMAIN sessions : sessions[sid].status = "pending"

\* C26: starting a flow always stores a new pending session under a fresh
\* id and answers with it, whether the verifier answered or failed; after a
\* failure the session carries a locally drawn verification session id and
\* the service's own presentation request.
C26_StartAlwaysCreates ==
  /\ [](\A r \in 1..Len(starts) :
          starts[r].at = "DONE" =>
            /\ starts[r].reply.status = 200
            /\ starts[r].reply.sid = starts[r].sessionId
            /\ starts[r].sessionId \in DOMAIN sessions
            /\ \A q \in 1..Len(starts) :
                 q # r => starts[q].sessionId # starts[r].sessionId
            /\ ~starts[r].verifierOk =>
                 LET session == sessions[starts[r].sessionId]
                 IN /\ session.verificationSessionId.source = "local"
                    /\ session.verificationSessionId.uuid
                         \notin DOMAIN sessions \cup { 0 }
                    /\ session.presentationRequest =
                         [source |-> "own", challenge |-> starts[r].challenge])
  /\ [][\A r \in 1..Len(starts) :
          starts[r].at = "AWAIT_VERIFIER" /\ starts'[r].at = "DONE" =>
            /\ starts[r].sessionId \notin DOMAIN sessions
            /\ starts[r].sessionId \in DOMAIN sessions'
            /\ sessions'[starts[r].sessionId].status = "pending"
            /\ sessions'[starts[r].sessionId].authToken = NoToken
            /\ \A sid \in DOMAIN sessions : sessions'[sid] = sessions[sid]
       ]_vars

C26_Witness ==
  /\ Len(starts) = 2
  /\ starts[1].at = "DONE" /\ ~starts[1].verifierOk
  /\ starts[2].at = "DONE" /\ starts[2].verifierOk
  /\ sessions[starts[1].sessionId].status = "pending"
  /\ sessions[starts[1].sessionId].verificationSessionId.source = "local"
  /\ sessions[starts[2].sessionId].status = "pending"

\* C29: the IACA is onboarded first and the Document Signer second, with the
\* IACA key the first call returned; the file is written only after both
\* onboardings succeeded; when an onboarding fails nothing is written, the
\* script exits with status 1, and after an IACA failure the Document Signer
\* request is never sent.
C29_PkiOrder ==
  /\ requests \in { << >>, << IacaEndpoint >>, << IacaEndpoint, DsEndpoint >> }
  /\ dsData.sent <=> InSeq(DsEndpoint, requests)
  /\ dsData.sent =>
       /\ Truthy(iacaData.iacaKey)
       /\ dsData.iacaKey = iacaData.iacaKey
       /\ dsData.certificateData = iacaData.certificateData
  /\ fileOps # << >> =>
       /\ requests = << IacaEndpoint, DsEndpoint >>
       /\ Truthy(iacaData.iacaKey)
       /\ Truthy(dsData.documentSignerKey)
       /\ Len(fileOps) = 1
  /\ InSeq("write", fileOps) =>
       /\ pkiFile = PkiSetupOf(iacaData, dsData)
       /\ failedStep = NoStep
  /\ failedStep \in { "IACA", "DS" } =>
       /\ fileOps = << >>
       /\ exitStatus = 1
       /\ pkiPc = "PKI_FAILED"
  /\ failedStep = "IACA" => ~dsData.sent /\ requests = << IacaEndpoint >>
  /\ pkiPc = "PKI_FAILED" <=> failedStep \in { "IACA", "DS", "WRITE" }
  /\ exitStatus = 0 => pkiPc \in { "PKI_DONE", "PKI_EXITED" }

C29_Witness ==
  /\ pkiPc = "PKI_DONE"
  /\ exitStatus = 0
  /\ requests = << IacaEndpoint, DsEndpoint >>
  /\ iacaData.iacaKey = "iaca-key-2"
  /\ dsData.iacaKey = "iaca-key-2"
  /\ pkiFile.state = "setup"
  /\ pkiFile.issuerKey = "ds-key-1"

\* C28: a POST /api/issue-mdoc without passportData or without webId is
\* answered with 400 and has no other effect: the PKI file is not read, no
\* PKI setup is started and nothing is sent to the issuer.
C28_MissingInputOnly400 ==
  [][ (/\ Len(started') > Len(started)
       /\ body'.passportData \in { Undefined, "" }
            \/ body'.webId \in { Undefined, "" })
        => /\ readerReply' = ReaderAnswer(400,
                  "Missing passport data or web ID", Undefined)
           /\ readerPc' = "READER_LISTENING"
           /\ UNCHANGED << fileOps, requests, issuanceRequest >>
           /\ pkiSetup' = NotRead
           /\ UNCHANGED pkiScript ]_vars

C28_Witness ==
  /\ readerReply.status = 400
  /\ body.passportData = ObjectValue
  /\ body.webId = ""
  /\ Len(completed) = 2
  /\ fileOps = << "read" >>

\* C27: when the request finds no mdoc-pki-setup.json, a new PKI setup is
\* created, the credential is issued with it and the request ends with the
\* credential offer, never with an error.
C27_MissingPkiCreated ==
  (/\ readerPc = "READER_LISTENING"
   /\ readerReply.status # 0
   /\ pkiSetup.state = "absent")
    => /\ readerReply.status = 200
       /\ readerReply.kind = "credentialOffer"
       /\ issuanceRequest.sent

====
